---- MODULE Spec2Model ----
(***************************************************************************)
(* A model of the COSE_Mac0 message of package cose (src/cose/mac0.go),    *)
(* of the Headers / IntMap accessors it uses (src/cose/header.go,          *)
(* src/key/intmap_test.go) and of the CBOR codec the message is written    *)
(* to and read from.                                                       *)
(*                                                                         *)
(* Go values are modelled with their nil-ness: a []byte is a record        *)
(* [nil, b], a Headers map is a record [nil, m].  Bytes are numbers        *)
(* 0..255, byte strings are sequences of them.  Integers stored in a map   *)
(* are kept as sign and magnitude, the magnitude as big-endian 16-bit      *)
(* limbs, so that 64-bit values keep their width.                          *)
(***************************************************************************)
EXTENDS Integers, Sequences, FiniteSets, TLC

VARIABLES
    m,          \* the Mac0Message object the caller works on
    wire,       \* the encoded message in transit: [some, b]
    last,       \* what the last operation was given and what it returned
    vm,         \* the object returned by the last VerifyMac0Message
    prov,       \* history: which Compute made the tag that m holds
    im,         \* the IntMap the accessors are applied to
    got,        \* what the last accessor call was given and what it returned
    ops         \* how many operations have been applied

vars == <<m, wire, last, vm, prov, im, got, ops>>

-----------------------------------------------------------------------------
(* Bounds of the model *)

MaxOps == 3
MaxEntries == 3
MaxTime == 4
MaxSkew == 1

-----------------------------------------------------------------------------
(* Integers as 16-bit limbs *)

LimbBase == 256 * 256

RECURSIVE StripZeros(_)
StripZeros(s) ==
    IF Len(s) > 0 /\ s[1] = 0 THEN StripZeros(Tail(s)) ELSE s

NatToMag(n) ==
    IF n = 0 THEN <<>>
    ELSE IF n < LimbBase THEN <<n>>
    ELSE <<n \div LimbBase, n % LimbBase>>

\* Only for magnitudes below 2^31.
MagToNat(mag) ==
    IF Len(mag) = 0 THEN 0
    ELSE IF Len(mag) = 1 THEN mag[1]
    ELSE mag[1] * LimbBase + mag[2]

RECURSIVE LexLess(_, _)
LexLess(a, b) ==
    IF Len(a) = 0 \/ Len(b) = 0 THEN Len(a) < Len(b)
    ELSE IF a[1] # b[1] THEN a[1] < b[1]
    ELSE LexLess(Tail(a), Tail(b))

MagLess(a, b) ==
    \/ Len(a) < Len(b)
    \/ Len(a) = Len(b) /\ LexLess(a, b)

MagLeq(a, b) == a = b \/ MagLess(a, b)

RECURSIVE MagDecRaw(_)
MagDecRaw(s) ==
    IF s[Len(s)] > 0 THEN [s EXCEPT ![Len(s)] = @ - 1]
    ELSE Append(MagDecRaw(SubSeq(s, 1, Len(s) - 1)), LimbBase - 1)

\* mag - 1, for mag > 0

\* mag + 1
RECURSIVE MagInc(_)
MagInc(s) ==
    IF Len(s) = 0 THEN <<1>>
    ELSE IF s[Len(s)] < LimbBase - 1 THEN [s EXCEPT ![Len(s)] = @ + 1]
    ELSE Append(MagInc(SubSeq(s, 1, Len(s) - 1)), 0)

MaxInt32Mag == <<32767, 65535>>
MinInt32Mag == <<32768, 0>>
MaxInt64Mag == <<32767, 65535, 65535, 65535>>
MinInt64Mag == <<32768, 0, 0, 0>>
MaxUint64Mag == <<65535, 65535, 65535, 65535>>

-----------------------------------------------------------------------------
(* Go values *)

NilBytes == [nil |-> TRUE, b |-> <<>>]
SomeBytes(b) == [nil |-> FALSE, b |-> b]

\* A value stored in an IntMap (a Go `any`).
Val(k, neg, mag, b) == [k |-> k, neg |-> neg, mag |-> mag, b |-> b]
IntV(n) == Val("int", n < 0, NatToMag(IF n < 0 THEN -n ELSE n), <<>>)
BigV(neg, mag) == Val("int", neg, mag, <<>>)
\* A value made of bytes: a []byte ("bytes"), a ByteStr ("bytestr"), a
\* [n]byte ("bytearr"), a string ("text"), a value of a named string type
\* ("ntext") or a []string of one string ("tarr").
StrV(k, b) == Val(k, FALSE, <<>>, b)
\* A bool keeps its truth value in the field neg.
BoolV(t) == Val("bool", t, <<>>, <<>>)
NullV == Val("null", FALSE, <<>>, <<>>)

NilMap == [nil |-> TRUE, m |-> <<>>]
EmptyMap == [nil |-> FALSE, m |-> <<>>]
MapPut(h, k, v) ==
    [nil |-> FALSE,
     m |-> [x \in (DOMAIN h.m) \cup {k} |-> IF x = k THEN v ELSE h.m[x]]]
MapLen(h) == Cardinality(DOMAIN h.m)

-----------------------------------------------------------------------------
(* The CBOR codec: key.MarshalCBOR / key.UnmarshalCBOR (RFC 8949,          *)
(* deterministic encoding: shortest heads, definite lengths, sorted keys)  *)

CborNull == <<246>>

RECURSIVE LimbBytes(_)
LimbBytes(s) ==
    IF Len(s) = 0 THEN <<>>
    ELSE <<s[1] \div 256, s[1] % 256>> \o LimbBytes(Tail(s))

RECURSIVE PadLimbs(_, _)
PadLimbs(s, n) == IF Len(s) >= n THEN s ELSE PadLimbs(<<0>> \o s, n)

\* The head of a data item: major type and argument, in the shortest form.
EncHead(major, mag) ==
    IF Len(mag) = 0 THEN <<major * 32>>
    ELSE IF Len(mag) = 1 THEN
        IF mag[1] < 24 THEN <<major * 32 + mag[1]>>
        ELSE IF mag[1] < 256 THEN <<major * 32 + 24, mag[1]>>
        ELSE <<major * 32 + 25>> \o LimbBytes(mag)
    ELSE IF Len(mag) = 2 THEN <<major * 32 + 26>> \o LimbBytes(mag)
    ELSE <<major * 32 + 27>> \o LimbBytes(PadLimbs(mag, 4))

EncInt(n) ==
    IF n >= 0 THEN EncHead(0, NatToMag(n)) ELSE EncHead(1, NatToMag(-1 - n))

EncByteString(b) == EncHead(2, NatToMag(Len(b))) \o b
EncTextString(b) == EncHead(3, NatToMag(Len(b))) \o b

\* A Go []byte: nil is written as null.
EncBytes(g) == IF g.nil THEN CborNull ELSE EncByteString(g.b)

EncValue(v) ==
    CASE v.k = "int" ->
            IF v.neg THEN EncHead(1, StripZeros(MagDecRaw(v.mag))) ELSE EncHead(0, v.mag)
      [] v.k \in {"bytes", "bytestr", "bytearr"} -> EncByteString(v.b)
      [] v.k \in {"text", "ntext"} -> EncTextString(v.b)
      [] v.k = "tarr" -> EncHead(4, <<1>>) \o EncTextString(v.b)
      [] v.k = "bool" -> IF v.neg THEN <<245>> ELSE <<244>>
      [] OTHER -> CborNull

\* As KeyLess, but a shorter encoded key comes first (the length-first
\* order of RFC 7049).
KeyLessLengthFirst(a, b) ==
    \/ Len(EncInt(a)) < Len(EncInt(b))
    \/ Len(EncInt(a)) = Len(EncInt(b)) /\ LexLess(EncInt(a), EncInt(b))

\* Bytewise lexicographic order of the encoded keys.
KeyLess(a, b) == LexLess(EncInt(a), EncInt(b))

RECURSIVE SortKeys(_)
SortKeys(S) ==
    IF S = {} THEN <<>>
    ELSE LET k == CHOOSE x \in S : \A y \in S \ {x} : KeyLess(x, y)
         IN <<k>> \o SortKeys(S \ {k})

RECURSIVE EncPairs(_, _)
EncPairs(f, ks) ==
    IF Len(ks) = 0 THEN <<>>
    ELSE EncInt(ks[1]) \o EncValue(f[ks[1]]) \o EncPairs(f, Tail(ks))

\* An IntMap / Headers: nil is written as null.
EncMap(h) ==
    IF h.nil THEN CborNull
    ELSE EncHead(5, NatToMag(MapLen(h))) \o EncPairs(h.m, SortKeys(DOMAIN h.m))

EncTag(number, content) == EncHead(6, NatToMag(number)) \o content

Fail == [ok |-> FALSE, major |-> 0, mag |-> <<>>, next |-> 0]

\* How many bytes of argument follow an initial byte (9: none is defined).
ArgLen(ai) ==
    IF ai < 24 THEN 0
    ELSE IF ai = 24 THEN 1
    ELSE IF ai = 25 THEN 2
    ELSE IF ai = 26 THEN 4
    ELSE IF ai = 27 THEN 8 ELSE 9

ArgMag(arg) ==
    IF Len(arg) = 1 THEN arg
    ELSE StripZeros([j \in 1..(Len(arg) \div 2) |->
                        arg[2 * j - 1] * 256 + arg[2 * j]])

HeadAt(d, i, major, ai, n) ==
    IF n = 9 \/ i + n > Len(d) THEN Fail
    ELSE [ok |-> TRUE, major |-> major,
          mag |-> IF n = 0 THEN NatToMag(ai)
                  ELSE ArgMag(SubSeq(d, i + 1, i + n)),
          next |-> i + n + 1]

\* Reads the head at position i: [ok, major, mag, next].
DecHead(d, i) ==
    IF i > Len(d) THEN Fail
    ELSE HeadAt(d, i, d[i] \div 32, d[i] % 32, ArgLen(d[i] % 32))


StringAt(d, h, major, n) ==
    IF ~h.ok \/ h.major # major \/ Len(h.mag) > 1 \/ h.next + n - 1 > Len(d)
    THEN [ok |-> FALSE, b |-> <<>>, next |-> 0]
    ELSE [ok |-> TRUE, b |-> SubSeq(d, h.next, h.next + n - 1),
          next |-> h.next + n]

StringAfter(d, h, major) == StringAt(d, h, major, MagToNat(h.mag))

\* Reads a byte or text string of the given major type: [ok, b, next].
DecString(d, i, major) == StringAfter(d, DecHead(d, i), major)

NoVal == [ok |-> FALSE, v |-> NullV, next |-> 0]

StringItem(k, s) == [ok |-> s.ok, v |-> StrV(k, s.b), next |-> s.next]

ValueAt(d, i, h) ==
    IF ~h.ok THEN NoVal
    ELSE CASE h.major = 0 ->
                [ok |-> TRUE, v |-> BigV(FALSE, h.mag), next |-> h.next]
           [] h.major = 1 ->
                [ok |-> TRUE, v |-> BigV(TRUE, MagInc(h.mag)), next |-> h.next]
           [] h.major = 2 -> StringItem("bytes", StringAfter(d, h, 2))
           [] h.major = 3 -> StringItem("text", StringAfter(d, h, 3))
           [] h.major = 7 /\ d[i] \in {244, 245} ->
                [ok |-> TRUE, v |-> BoolV(d[i] = 245), next |-> i + 1]
           [] h.major = 7 /\ d[i] = 246 ->
                [ok |-> TRUE, v |-> NullV, next |-> i + 1]
           [] OTHER -> NoVal

\* Reads a data item into a Go `any`: [ok, v, next].
DecValue(d, i) == ValueAt(d, i, DecHead(d, i))

BytesOf(s) == [ok |-> s.ok, g |-> SomeBytes(s.b), next |-> s.next]

\* Reads a Go []byte: a byte string, or null for nil. [ok, g, next]
DecBytes(d, i) ==
    IF i <= Len(d) /\ d[i] = 246
    THEN [ok |-> TRUE, g |-> NilBytes, next |-> i + 1]
    ELSE BytesOf(DecString(d, i, 2))

KeyAt(h) ==
    IF ~h.ok \/ h.major > 1 \/ Len(h.mag) > 1
    THEN [ok |-> FALSE, k |-> 0, next |-> 0]
    ELSE [ok |-> TRUE,
          k |-> IF h.major = 0 THEN MagToNat(h.mag) ELSE -1 - MagToNat(h.mag),
          next |-> h.next]

\* Reads a map key: an integer that fits a Go int. [ok, k, next]
DecKey(d, i) == KeyAt(DecHead(d, i))

RECURSIVE DecPairs(_, _, _, _)
RECURSIVE PairsAfterKey(_, _, _, _)
RECURSIVE PairsAfterValue(_, _, _, _, _)

PairsAfterValue(d, n, acc, k, v) ==
    IF ~v.ok THEN [ok |-> FALSE, h |-> acc, next |-> 0]
    ELSE DecPairs(d, v.next, n - 1, MapPut(acc, k, v.v))

PairsAfterKey(d, n, acc, k) ==
    IF ~k.ok THEN [ok |-> FALSE, h |-> acc, next |-> 0]
    ELSE PairsAfterValue(d, n, acc, k.k, DecValue(d, k.next))

\* Reads n key/value pairs into acc; a repeated key keeps its last value.
DecPairs(d, i, n, acc) ==
    IF n = 0 THEN [ok |-> TRUE, h |-> acc, next |-> i]
    ELSE PairsAfterKey(d, n, acc, DecKey(d, i))

MapAt(d, h, into) ==
    IF ~h.ok \/ h.major # 5 \/ Len(h.mag) > 1
    THEN [ok |-> FALSE, h |-> into, next |-> 0]
    ELSE DecPairs(d, h.next, MagToNat(h.mag),
                  IF into.nil THEN EmptyMap ELSE into)

\* Reads a map into `into` (a Go map is filled, not replaced): [ok, h, next].
DecMapInto(d, i, into) ==
    IF i <= Len(d) /\ d[i] = 246
    THEN [ok |-> TRUE, h |-> NilMap, next |-> i + 1]
    ELSE MapAt(d, DecHead(d, i), into)

WholeMap(d, r) == [ok |-> r.ok /\ r.next = Len(d) + 1, h |-> r.h]

\* key.UnmarshalCBOR(data, &headers): the whole of data is one map.
UnmarshalMap(d, into) == WholeMap(d, DecMapInto(d, 1, into))

-----------------------------------------------------------------------------
(* IANA numbers used by the message *)

CBORTagCWT == 61
CBORTagCOSEMac0 == 17
HeaderParameterAlg == 1
HeaderParameterKid == 4
AlgorithmReserved == 0

cwtPrefix == <<216, 61>>
mac0MessagePrefix == <<209>>

-----------------------------------------------------------------------------
(* IntMap accessors *)

\* The result of an accessor: the value in the requested shape (the zero
\* value of the shape on error or when the key is absent) and the error.
Got(val) == [val |-> val, err |-> FALSE]
Mismatch(zero) == [val |-> zero, err |-> TRUE]

FitsInt32(v) ==
    IF v.neg THEN MagLeq(v.mag, MinInt32Mag) ELSE MagLeq(v.mag, MaxInt32Mag)

FitsInt64(v) ==
    IF v.neg THEN MagLeq(v.mag, MinInt64Mag) ELSE MagLeq(v.mag, MaxInt64Mag)

IntMapHas(h, p) == p \in DOMAIN h.m

\* As IntMapGetInt, but any integer of 64 bits is returned.
IntMapGetIntAnyWidth(h, p) ==
    IF ~IntMapHas(h, p) THEN Got(IntV(0))
    ELSE IF h.m[p].k = "int" /\ FitsInt64(h.m[p]) THEN Got(h.m[p])
    ELSE Mismatch(IntV(0))

\* IntMap.GetInt: an integer that fits 32 bits.
IntMapGetInt(h, p) ==
    IF ~IntMapHas(h, p) THEN Got(IntV(0))
    ELSE IF h.m[p].k = "int" /\ FitsInt32(h.m[p]) THEN Got(h.m[p])
    ELSE Mismatch(IntV(0))

IntMapGetInt64(h, p) ==
    IF ~IntMapHas(h, p) THEN Got(IntV(0))
    ELSE IF h.m[p].k = "int" /\ FitsInt64(h.m[p]) THEN Got(h.m[p])
    ELSE Mismatch(IntV(0))

IntMapGetUint64(h, p) ==
    IF ~IntMapHas(h, p) THEN Got(IntV(0))
    ELSE IF h.m[p].k = "int" /\ ~h.m[p].neg THEN Got(h.m[p])
    ELSE Mismatch(IntV(0))

\* As IntMapGetBytes, but a fixed-size byte array is returned as well.
IntMapGetBytesOfArray(h, p) ==
    IF ~IntMapHas(h, p) THEN Got(NilBytes)
    ELSE IF h.m[p].k \in {"bytes", "bytestr", "bytearr"}
    THEN Got(SomeBytes(h.m[p].b))
    ELSE Mismatch(NilBytes)

\* IntMap.GetBytes: a []byte or a ByteStr; a [4]byte is refused.
IntMapGetBytes(h, p) ==
    IF ~IntMapHas(h, p) THEN Got(NilBytes)
    ELSE IF h.m[p].k \in {"bytes", "bytestr"} THEN Got(SomeBytes(h.m[p].b))
    ELSE Mismatch(NilBytes)

\* IntMap.GetString: a string, or a value of a named string type.
IntMapGetString(h, p) ==
    IF ~IntMapHas(h, p) THEN Got(<<>>)
    ELSE IF h.m[p].k \in {"text", "ntext"} THEN Got(h.m[p].b)
    ELSE Mismatch(<<>>)

IntMapGetBool(h, p) ==
    IF ~IntMapHas(h, p) THEN Got(FALSE)
    ELSE IF h.m[p].k = "bool" THEN Got(h.m[p].neg)
    ELSE Mismatch(FALSE)

-----------------------------------------------------------------------------
(* Headers *)

Has(h, p) == IntMapHas(h, p)
GetInt(h, p) == IntMapGetInt(h, p)

\* Headers.Bytes: the protected bucket as it goes on the wire.
HeadersBytes(h) ==
    IF MapLen(h) = 0 THEN SomeBytes(<<>>) ELSE SomeBytes(EncMap(h))

HeadersOf(r) == [ok |-> r.ok, h |-> IF r.ok THEN r.h ELSE NilMap]

\* HeadersFromBytes: [ok, h]
HeadersFromBytes(g) ==
    IF Len(g.b) > 0 THEN HeadersOf(UnmarshalMap(g.b, EmptyMap))
    ELSE [ok |-> TRUE, h |-> EmptyMap]

-----------------------------------------------------------------------------
(* The MACer: an ideal MAC.  The tag of x under a key is the key's        *)
(* identity followed by x, so two tags agree only on the same key and x.   *)

MACCreate(macer, x) == SomeBytes(<<macer.id>> \o x)
MACVerify(macer, x, tag) == tag.b = <<macer.id>> \o x

-----------------------------------------------------------------------------
(* Mac0Message[T] and mac0Message *)

NoMM == [isnil |-> TRUE, Protected |-> NilBytes, Unprotected |-> NilMap,
         Payload |-> NilBytes, Tag |-> NilBytes]

\* A payload of type T: a []byte (T = "bytes") or a claims map (T = "claims").
BytesPayload(g) == [nil |-> g.nil, b |-> g.b, m |-> <<>>]
MapPayload(h) == [nil |-> h.nil, b |-> <<>>, m |-> h.m]
PayloadAsMap(p) == [nil |-> p.nil, m |-> p.m]

NewMessage(T, protected, unprotected, payload) ==
    [T |-> T, Protected |-> protected, Unprotected |-> unprotected,
     Payload |-> payload, mm |-> NoMM, toMac |-> NilBytes]

\* The array of the context "MAC0" and three byte strings.
MacStructure(protected, aad, payload) ==
    EncHead(4, <<4>>) \o EncTextString(<<77, 65, 67, 48>>)
        \o EncBytes(protected) \o EncBytes(aad) \o EncBytes(payload)

\* As toMac, but the payload is left out of the MAC_structure.
toMacWithoutPayload(mm, external_aad) ==
    MacStructure(mm.Protected,
                 IF external_aad.nil THEN SomeBytes(<<>>) ELSE external_aad,
                 NilBytes)

\* MAC_structure = [ "MAC0", body_protected, external_aad, payload ]
toMac(mm, external_aad) ==
    MacStructure(mm.Protected,
                 IF external_aad.nil THEN SomeBytes(<<>>) ELSE external_aad,
                 mm.Payload)

\* The payload as bytes: [ok, g]
EncodePayload(msg) ==
    IF msg.T = "bytes" THEN [ok |-> TRUE, g |-> [nil |-> msg.Payload.nil, b |-> msg.Payload.b]]
    ELSE [ok |-> TRUE, g |-> SomeBytes(EncMap(PayloadAsMap(msg.Payload)))]

\* As AlgMismatch, but an alg that GetInt refuses is let through.
AlgMismatchUnlessRefused(msg, macer) ==
    /\ Has(msg.Protected, HeaderParameterAlg)
    /\ ~GetInt(msg.Protected, HeaderParameterAlg).err
    /\ GetInt(msg.Protected, HeaderParameterAlg).val # IntV(macer.alg)

AlgMismatch(msg, macer) ==
    /\ Has(msg.Protected, HeaderParameterAlg)
    /\ GetInt(msg.Protected, HeaderParameterAlg).val # IntV(macer.alg)

\* As ProtectedAtCompute, but a nil Protected is only made a map.
ProtectedAtComputeNoAlg(msg, macer) ==
    IF msg.Protected.nil THEN EmptyMap ELSE msg.Protected

ProtectedAtCompute(msg, macer) ==
    IF msg.Protected.nil
    THEN IF macer.alg # AlgorithmReserved
         THEN MapPut(EmptyMap, HeaderParameterAlg, IntV(macer.alg))
         ELSE EmptyMap
    ELSE msg.Protected

UnprotectedAtCompute(msg, macer) ==
    IF msg.Unprotected.nil
    THEN IF Len(macer.kid) > 0
         THEN MapPut(EmptyMap, HeaderParameterKid, StrV("bytes", macer.kid))
         ELSE EmptyMap
    ELSE msg.Unprotected

NewMM(protected, unprotected, payload) ==
    [isnil |-> FALSE, Protected |-> protected, Unprotected |-> unprotected,
     Payload |-> payload, Tag |-> NilBytes]

\* Compute, from the MACCreate call on: msg.toMac is already set.
ComputeTag(msg, mm, macer, macOk) ==
    IF ~macOk THEN [m |-> msg, err |-> "mac_create", calls |-> {"MACCreate"}]
    ELSE [m |-> [msg EXCEPT
                   !.mm = [mm EXCEPT !.Tag = MACCreate(macer, msg.toMac.b)]],
          err |-> "", calls |-> {"MACCreate"}]

\* Compute, from the building of the MAC_structure on.
ComputeToMac(msg, mm, macer, externalData, macOk) ==
    ComputeTag([msg EXCEPT !.toMac = SomeBytes(toMac(mm, externalData))],
               mm, macer, macOk)

\* Compute, from the encoding of the payload on.
ComputePayload(msg, protected, pl, macer, externalData, macOk) ==
    IF ~pl.ok THEN [m |-> msg, err |-> "encode", calls |-> {}]
    ELSE ComputeToMac(msg, NewMM(protected, msg.Unprotected, pl.g),
                      macer, externalData, macOk)

\* As ComputeFilled, but the protected map is always encoded as a map.
ComputeFilledAsMap(msg, macer, externalData, macOk) ==
    ComputePayload(msg, SomeBytes(EncMap(msg.Protected)), EncodePayload(msg),
                   macer, externalData, macOk)

\* Compute, once the headers are filled in.
ComputeFilled(msg, macer, externalData, macOk) ==
    ComputePayload(msg, HeadersBytes(msg.Protected), EncodePayload(msg),
                   macer, externalData, macOk)

\* Mac0Message.Compute: [m, err, calls]
Compute(msg, macer, externalData, macOk) ==
    IF ~msg.Protected.nil /\ AlgMismatch(msg, macer)
    THEN [m |-> msg, err |-> "alg_mismatch", calls |-> {}]
    ELSE ComputeFilled(
             [msg EXCEPT !.Protected = ProtectedAtCompute(msg, macer),
                         !.Unprotected = UnprotectedAtCompute(msg, macer)],
             macer, externalData, macOk)

VerifyToMac(msg, macer) ==
    [m |-> msg,
     err |-> IF MACVerify(macer, msg.toMac.b, msg.mm.Tag)
             THEN "" ELSE "verify_failed",
     calls |-> {"MACVerify"}]

\* Mac0Message.Verify: [m, err, calls]
Verify(msg, macer, externalData) ==
    IF msg.mm.isnil \/ msg.mm.Tag.nil
    THEN [m |-> msg, err |-> "precondition", calls |-> {}]
    ELSE IF AlgMismatch(msg, macer)
    THEN [m |-> msg, err |-> "alg_mismatch", calls |-> {}]
    ELSE VerifyToMac([msg EXCEPT !.toMac = SomeBytes(toMac(msg.mm, externalData))],
                     macer)

\* The COSE_Mac0 array: [protected, unprotected, payload, tag]
EncMac0(mm) ==
    EncHead(4, <<4>>) \o EncBytes(mm.Protected) \o EncMap(mm.Unprotected)
        \o EncBytes(mm.Payload) \o EncBytes(mm.Tag)

\* As MarshalCBOR, but only a missing record is refused, not a nil tag.
MarshalCBORWithNilTag(msg) ==
    IF msg.mm.isnil
    THEN [err |-> "precondition", out |-> NilBytes]
    ELSE [err |-> "",
          out |-> SomeBytes(EncTag(CBORTagCWT,
                                   EncTag(CBORTagCOSEMac0, EncMac0(msg.mm))))]

\* Mac0Message.MarshalCBOR: [err, out]
MarshalCBOR(msg) ==
    IF msg.mm.isnil \/ msg.mm.Tag.nil
    THEN [err |-> "precondition", out |-> NilBytes]
    ELSE [err |-> "",
          out |-> SomeBytes(EncTag(CBORTagCWT,
                                   EncTag(CBORTagCOSEMac0, EncMac0(msg.mm))))]

\* One field of the array: a map for Unprotected, a []byte for the others.
FieldNames == <<"Protected", "Unprotected", "Payload", "Tag">>
BytesField(r) == [ok |-> r.ok, v |-> r.g, next |-> r.next]
MapField(r) == [ok |-> r.ok, v |-> r.h, next |-> r.next]
DecField(d, i, k) ==
    IF FieldNames[k] = "Unprotected" THEN MapField(DecMapInto(d, i, NilMap))
    ELSE BytesField(DecBytes(d, i))

RECURSIVE DecFields(_, _, _, _)
RECURSIVE FieldsAfter(_, _, _, _)

FieldsAfter(d, k, mm, f) ==
    IF ~f.ok THEN [ok |-> FALSE, mm |-> NoMM]
    ELSE DecFields(d, f.next, k + 1, [mm EXCEPT ![FieldNames[k]] = f.v])

DecFields(d, i, k, mm) ==
    IF k > Len(FieldNames)
    THEN IF i = Len(d) + 1 THEN [ok |-> TRUE, mm |-> mm]
         ELSE [ok |-> FALSE, mm |-> NoMM]
    ELSE FieldsAfter(d, k, mm, DecField(d, i, k))

Mac0At(d, h) ==
    IF h.ok /\ h.major = 4 /\ h.mag = <<Len(FieldNames)>>
    THEN DecFields(d, h.next, 1, [NoMM EXCEPT !.isnil = FALSE])
    ELSE [ok |-> FALSE, mm |-> NoMM]

\* key.UnmarshalCBOR(data, &mac0Message{}): [ok, mm]
DecMac0(d) == Mac0At(d, DecHead(d, 1))

HasPrefix(d, prefix) ==
    Len(d) >= Len(prefix) /\ SubSeq(d, 1, Len(prefix)) = prefix

Drop(d, n) == SubSeq(d, n + 1, Len(d))

StripMac0Prefix(data) ==
    IF HasPrefix(data, mac0MessagePrefix) THEN Drop(data, 1) ELSE data

\* As StripPrefixes, but the COSE_Mac0 tag is dropped only after a CWT tag.
StripPrefixesTogether(data) ==
    IF HasPrefix(data, cwtPrefix) THEN StripMac0Prefix(Drop(data, 2)) ELSE data

StripPrefixes(data) ==
    StripMac0Prefix(IF HasPrefix(data, cwtPrefix) THEN Drop(data, 2) ELSE data)

PayloadOf(msg, r) ==
    [ok |-> r.ok, p |-> IF r.ok THEN MapPayload(r.h) ELSE msg.Payload]

\* The payload field after decoding the wire payload into it: [ok, p]
DecodePayload(msg, g) ==
    IF Len(g.b) = 0 THEN [ok |-> TRUE, p |-> msg.Payload]
    ELSE IF msg.T = "bytes" THEN [ok |-> TRUE, p |-> BytesPayload(g)]
    ELSE PayloadOf(msg, UnmarshalMap(g.b, PayloadAsMap(msg.Payload)))

\* As UnmarshalPayload, but the unprotected headers are not taken over.
UnmarshalPayloadKeepsUnprotected(msg, mm, pl) ==
    IF ~pl.ok THEN [m |-> msg, err |-> "invalid_cbor"]
    ELSE [m |-> [msg EXCEPT !.Payload = pl.p, !.mm = mm], err |-> ""]

\* UnmarshalCBOR, from the decoding of the payload on.
UnmarshalPayload(msg, mm, pl) ==
    IF ~pl.ok THEN [m |-> msg, err |-> "invalid_cbor"]
    ELSE [m |-> [msg EXCEPT !.Payload = pl.p,
                            !.Unprotected = mm.Unprotected,
                            !.mm = mm],
          err |-> ""]

\* UnmarshalCBOR, from the decoding of the protected bytes on.
UnmarshalProtected(msg, mm, hp) ==
    IF ~hp.ok THEN [m |-> [msg EXCEPT !.Protected = hp.h], err |-> "invalid_cbor"]
    ELSE UnmarshalPayload([msg EXCEPT !.Protected = hp.h], mm,
                          DecodePayload(msg, mm.Payload))

UnmarshalDecoded(msg, dec) ==
    IF ~dec.ok THEN [m |-> msg, err |-> "invalid_cbor"]
    ELSE UnmarshalProtected(msg, dec.mm, HeadersFromBytes(dec.mm.Protected))

\* Mac0Message.UnmarshalCBOR: [m, err]
UnmarshalCBOR(msg, data) == UnmarshalDecoded(msg, DecMac0(StripPrefixes(data)))

FreshMessage(T) ==
    NewMessage(T, NilMap, NilMap,
               IF T = "bytes" THEN BytesPayload(NilBytes) ELSE MapPayload(NilMap))

VerifiedOr(u, v) ==
    IF v.err # "" THEN [ok |-> FALSE, m |-> u.m, err |-> v.err, calls |-> v.calls]
    ELSE [ok |-> TRUE, m |-> v.m, err |-> "", calls |-> v.calls]

VerifyDecoded(u, macer, externalData) ==
    IF u.err # "" THEN [ok |-> FALSE, m |-> u.m, err |-> u.err, calls |-> {}]
    ELSE VerifiedOr(u, Verify(u.m, macer, externalData))

\* VerifyMac0Message: [ok, m, err, calls]; m is returned only when ok.
VerifyMac0Message(T, macer, coseData, externalData) ==
    VerifyDecoded(UnmarshalCBOR(FreshMessage(T), coseData), macer, externalData)

EncodeComputed(c, e) ==
    IF c.err # ""
    THEN [m |-> c.m, err |-> c.err, out |-> NilBytes, calls |-> c.calls]
    ELSE [m |-> c.m, err |-> e.err, out |-> e.out, calls |-> c.calls]

EncodeAfter(c) == EncodeComputed(c, MarshalCBOR(c.m))

\* Mac0Message.ComputeAndEncode: [m, err, out, calls]
ComputeAndEncode(msg, macer, externalData, macOk) ==
    EncodeAfter(Compute(msg, macer, externalData, macOk))

TagAt(d, h) == IF h.ok /\ h.major = 6 THEN Drop(d, h.next - 1) ELSE d

\* RemoveCBORTag: strips exactly one leading tag, if there is one.
RemoveCBORTag(d) == TagAt(d, DecHead(d, 1))

-----------------------------------------------------------------------------
(* Inputs *)

Macers ==
    { [id |-> 1, alg |-> AlgorithmReserved, kid |-> <<>>],
      [id |-> 2, alg |-> 4, kid |-> <<49>>] }
NoMacer == [id |-> 0, alg |-> AlgorithmReserved, kid |-> <<>>]

Exts == {NilBytes, SomeBytes(<<>>), SomeBytes(<<17>>)}

BytePayloads == {NilBytes, SomeBytes(<<>>), SomeBytes(<<104>>)}

ClaimsPayloads == {NilMap, EmptyMap, MapPut(EmptyMap, 4, IntV(5))}

Payloads(T) ==
    IF T = "bytes" THEN {BytesPayload(g) : g \in BytePayloads}
    ELSE {MapPayload(h) : h \in ClaimsPayloads}

ProtectedInputs ==
    { NilMap, EmptyMap,
      MapPut(EmptyMap, HeaderParameterAlg, IntV(4)),
      MapPut(EmptyMap, HeaderParameterAlg, IntV(5)),
      MapPut(EmptyMap, HeaderParameterAlg, StrV("text", <<97>>)) }

-----------------------------------------------------------------------------
(* The state machine *)

\* Which Compute made a tag: the key and the three byte strings that went
\* into the MAC_structure.  History only: no operation reads it.
NoProv == [ok |-> FALSE, id |-> 0, p |-> NilBytes, pl |-> NilBytes, e |-> <<>>]
ProvOf(msg, macer, ext) ==
    [ok |-> TRUE, id |-> macer.id, p |-> msg.mm.Protected,
     pl |-> msg.mm.Payload, e |-> ext.b]

\* The public fields of a message, as they stood when it was encoded.
Snapshot(msg) == [msg EXCEPT !.mm = NoMM, !.toMac = NilBytes]

NoMessage == FreshMessage("bytes")

NoWire == [some |-> FALSE, b |-> <<>>, via |-> "", macer |-> NoMacer,
           ext |-> NilBytes, snap |-> NoMessage, prov |-> NoProv]

\* The last operation: its name, the error it returned ("" for none), the
\* MACer methods it called, and whether Protected was nil when it began.
Idle == [op |-> "", err |-> "", calls |-> {}, wasNil |-> FALSE]
Did(op, r) == [op |-> op, err |-> r.err, calls |-> r.calls, wasNil |-> FALSE]
DidPlain(op, r) == [op |-> op, err |-> r.err, calls |-> {}, wasNil |-> FALSE]

NoVM == [ok |-> FALSE, m |-> NoMessage]

NoIntMapCall == [op |-> "", p |-> 0, err |-> FALSE, val |-> NullV]

Init ==
    /\ \E T \in {"bytes", "claims"}, p \in ProtectedInputs,
            u \in {NilMap, EmptyMap} :
         \E pl \in Payloads(T) : m = NewMessage(T, p, u, pl)
    /\ wire = NoWire
    /\ last = Idle
    /\ vm = NoVM
    /\ prov = NoProv
    /\ im = EmptyMap
    /\ got = NoIntMapCall
    /\ ops = 0

\* Every operation is one step of a bounded run.
Tick == ops < MaxOps /\ ops' = ops + 1

Computed(r, macer, ext) ==
    /\ Tick
    /\ m' = r.m
    /\ prov' = IF r.err = "" THEN ProvOf(r.m, macer, ext) ELSE prov
    /\ last' = [Did("Compute", r) EXCEPT !.wasNil = m.Protected.nil]
    /\ vm' = NoVM
    /\ UNCHANGED <<wire, im, got>>

DoCompute(macer, ext, macOk) == Computed(Compute(m, macer, ext, macOk), macer, ext)

Encoded(r, macer, ext) ==
    /\ Tick
    /\ m' = r.m
    /\ prov' = IF r.err = "" THEN ProvOf(r.m, macer, ext) ELSE prov
    /\ wire' = IF r.err = ""
               THEN [some |-> TRUE, b |-> r.out.b, via |-> "ComputeAndEncode",
                     macer |-> macer, ext |-> ext, snap |-> Snapshot(r.m),
                     prov |-> ProvOf(r.m, macer, ext)]
               ELSE wire
    /\ last' = [Did("ComputeAndEncode", r) EXCEPT !.wasNil = m.Protected.nil]
    /\ vm' = NoVM
    /\ UNCHANGED <<im, got>>

DoComputeAndEncode(macer, ext, macOk) ==
    Encoded(ComputeAndEncode(m, macer, ext, macOk), macer, ext)

Marshalled(r) ==
    /\ Tick
    /\ wire' = IF r.err = ""
               THEN [some |-> TRUE, b |-> r.out.b, via |-> "MarshalCBOR",
                     macer |-> NoMacer, ext |-> NilBytes, snap |-> Snapshot(m),
                     prov |-> prov]
               ELSE wire
    /\ last' = DidPlain("MarshalCBOR", r)
    /\ vm' = NoVM
    /\ UNCHANGED <<m, prov, im, got>>

DoMarshalCBOR == Marshalled(MarshalCBOR(m))

Unmarshalled(r) ==
    /\ Tick
    /\ m' = r.m
    /\ prov' = IF r.err = "" THEN wire.prov ELSE prov
    /\ last' = DidPlain("UnmarshalCBOR", r)
    /\ vm' = NoVM
    /\ UNCHANGED <<wire, im, got>>

DoUnmarshalCBOR == wire.some /\ Unmarshalled(UnmarshalCBOR(m, wire.b))

Verified(r) ==
    /\ Tick
    /\ m' = r.m
    /\ last' = Did("Verify", r)
    /\ vm' = NoVM
    /\ UNCHANGED <<wire, prov, im, got>>

DoVerify(macer, ext) == Verified(Verify(m, macer, ext))

VerifiedMessage(r) ==
    /\ Tick
    /\ vm' = [ok |-> r.ok, m |-> IF r.ok THEN r.m ELSE NoMessage]
    /\ last' = Did("VerifyMac0Message", r)
    /\ UNCHANGED <<m, wire, prov, im, got>>

DoVerifyMac0Message(macer, ext) ==
    wire.some /\ VerifiedMessage(VerifyMac0Message(m.T, macer, wire.b, ext))

InTransit(b, via, pv) ==
    /\ Tick
    /\ wire.some
    /\ b # wire.b
    /\ wire' = [wire EXCEPT !.b = b, !.via = via, !.prov = pv]
    /\ last' = Idle
    /\ vm' = NoVM
    /\ UNCHANGED <<m, prov, im, got>>

\* In transit: one leading tag is removed.
StripTag == InTransit(RemoveCBORTag(wire.b), wire.via, wire.prov)

\* In transit: a field of the message is replaced, the rest kept.
Replaced(b, dec, field, g) ==
    IF dec.ok
    THEN SubSeq(b, 1, Len(b) - Len(StripPrefixes(b)))
             \o EncMac0([dec.mm EXCEPT ![field] = g])
    ELSE b

Tamper(field, g) ==
    /\ wire.via # "tampered"
    /\ InTransit(Replaced(wire.b, DecMac0(StripPrefixes(wire.b)), field, g),
                 "tampered", IF field = "Tag" THEN NoProv ELSE wire.prov)

TamperPayload ==
    \E g \in IF m.T = "bytes" THEN BytePayloads
             ELSE {SomeBytes(EncMap(h)) : h \in ClaimsPayloads} :
        Tamper("Payload", g)
TamperProtected ==
    \E h \in ProtectedInputs : Tamper("Protected", HeadersBytes(h))

Next ==
    \/ \E macer \in Macers, ext \in Exts, macOk \in BOOLEAN :
         DoCompute(macer, ext, macOk)
    \/ \E macer \in Macers, ext \in Exts, macOk \in BOOLEAN :
         DoComputeAndEncode(macer, ext, macOk)
    \/ DoMarshalCBOR
    \/ DoUnmarshalCBOR
    \/ \E macer \in Macers, ext \in Exts : DoVerify(macer, ext)
    \/ \E macer \in Macers, ext \in Exts : DoVerifyMac0Message(macer, ext)
    \/ StripTag
    \/ TamperPayload
    \/ TamperProtected
    \/ Tamper("Tag", NilBytes)

Spec == Init /\ [][Next]_vars

-----------------------------------------------------------------------------
(* A received message: the object already has a Payload when the bytes of
   another message, computed by a sender, are decoded into it *)

\* The bytes in transit after the sender's ComputeAndEncode returned r.
Sent(r, macer, ext) ==
    [some |-> TRUE, b |-> r.out.b, via |-> "ComputeAndEncode",
     macer |-> macer, ext |-> ext, snap |-> Snapshot(r.m),
     prov |-> ProvOf(r.m, macer, ext)]

InitReuse ==
    /\ \E T \in {"bytes", "claims"}, macer \in Macers :
         \E pl \in Payloads(T), sent \in Payloads(T) :
            /\ m = NewMessage(T, NilMap, NilMap, pl)
            /\ wire = Sent(ComputeAndEncode(NewMessage(T, NilMap, NilMap, sent),
                                            macer, NilBytes, TRUE),
                           macer, NilBytes)
    /\ last = Idle
    /\ vm = NoVM
    /\ prov = NoProv
    /\ im = EmptyMap
    /\ got = NoIntMapCall
    /\ ops = 0

SpecReuse == InitReuse /\ [][Next]_vars

-----------------------------------------------------------------------------
(* The accessors on their own: a map is drawn, accessors are called on it *)

\* The map of TestIntMap.
TestIntMap ==
    [nil |-> FALSE, m |->
      [k \in {1, 2, 3, -1, -2, -3, 0, 10, 11, 12, 13, 14, 15} |->
        CASE k \in {1, 2, 3, -1, -2, -3} -> IntV(k)
          [] k = 0 -> BigV(FALSE, MaxInt64Mag)
          [] k = 10 -> StrV("bytes", <<1, 2, 3, 4>>)
          [] k = 11 -> StrV("bytestr", <<1, 2, 3, 4>>)
          [] k = 12 -> StrV("bytearr", <<1, 2, 3, 4>>)
          [] k = 13 -> StrV("text", <<104, 101, 108, 108, 111>>)
          [] k = 14 -> StrV("tarr", <<104, 101, 108, 108, 111>>)
          [] k = 15 -> StrV("ntext", <<104, 101, 108, 108, 111>>)]]

IntMapValues ==
    { IntV(0), IntV(1), IntV(-1),
      BigV(FALSE, MaxInt32Mag), BigV(FALSE, MagInc(MaxInt32Mag)),
      BigV(TRUE, MinInt32Mag), BigV(TRUE, MagInc(MinInt32Mag)),
      BigV(FALSE, MaxInt64Mag), BigV(FALSE, MagInc(MaxInt64Mag)),
      BigV(TRUE, MinInt64Mag), BigV(FALSE, MaxUint64Mag),
      StrV("bytes", <<>>), StrV("bytes", <<1, 2>>), StrV("bytestr", <<1, 2>>), StrV("bytearr", <<1, 2>>),
      StrV("text", <<>>), StrV("text", <<97>>), StrV("ntext", <<97>>), StrV("tarr", <<97>>),
      BoolV(TRUE), BoolV(FALSE), NullV }

\* The keys asked for: those of the drawn maps, and -10, which none has.
AskedKeys == {0, 1, -1, 10, 11, 12, 13, 14, 15, -10}

\* The map is that of TestIntMap, the empty one, or one of a single entry.
InitIntMap ==
    /\ im \in {EmptyMap, TestIntMap}
                \cup {MapPut(EmptyMap, k, v) : k \in {0, 1, -1}, v \in IntMapValues}
    /\ got = NoIntMapCall
    /\ m = NoMessage
    /\ wire = NoWire
    /\ last = Idle
    /\ vm = NoVM
    /\ prov = NoProv
    /\ ops = 0

\* An accessor was called with the key p and returned r.
Called(op, p, r) ==
    /\ got' = [op |-> op, p |-> p, err |-> r.err, val |-> r.val]
    /\ UNCHANGED <<im, m, wire, last, vm, prov, ops>>

NextIntMap ==
    \/ \E p \in AskedKeys : Called("GetInt", p, IntMapGetInt(im, p))
    \/ \E p \in AskedKeys : Called("GetInt64", p, IntMapGetInt64(im, p))
    \/ \E p \in AskedKeys : Called("GetUint64", p, IntMapGetUint64(im, p))
    \/ \E p \in AskedKeys : Called("GetBytes", p, IntMapGetBytes(im, p))
    \/ \E p \in AskedKeys : Called("GetString", p, IntMapGetString(im, p))
    \/ \E p \in AskedKeys : Called("GetBool", p, IntMapGetBool(im, p))

SpecIntMap == InitIntMap /\ [][NextIntMap]_vars

-----------------------------------------------------------------------------
(* Marshalling on its own: a map is filled entry by entry and marshalled *)

InitOrder == InitIntMap /\ im = EmptyMap

\* m[k] = v; got remembers the key that was set last.
PutEntry ==
    \E k \in {0, 1, 23, 24, 256, -1, -24, -25, -257},
       v \in {IntV(1), StrV("text", <<97>>)} :
        /\ MapLen(MapPut(im, k, v)) <= MaxEntries
        /\ im' = MapPut(im, k, v)
        /\ got' = [op |-> "Put", p |-> k, err |-> FALSE, val |-> NullV]
        /\ UNCHANGED <<m, wire, last, vm, prov, ops>>

\* key.MarshalCBOR(m)
CallMarshalCBOR ==
    /\ got' = [op |-> "MarshalCBOR", p |-> got.p, err |-> FALSE,
               val |-> EncMap(im)]
    /\ UNCHANGED <<im, m, wire, last, vm, prov, ops>>

NextOrder == PutEntry \/ CallMarshalCBOR

SpecOrder == InitOrder /\ [][NextOrder]_vars

-----------------------------------------------------------------------------
(* The CWT validator, on claims in map form: iss = 1, sub = 2, aud = 3,    *)
(* exp = 4, nbf = 5, iat = 6.  An expectation that is not set is the empty *)
(* string.                                                                 *)

\* The time a claim holds, in seconds.
TimeOf(claims, k) == MagToNat(IntMapGetUint64(claims, k).val.mag)

\* As ValidateMap, but the skew is taken off the clock for nbf as it is
\* for exp.
ValidateMapSkewOff(opts, claims, now) ==
    IF opts.iss # <<>> /\ IntMapGetString(claims, 1).val # opts.iss
    THEN "iss_mismatch"
    ELSE IF opts.aud # <<>> /\ IntMapGetString(claims, 3).val # opts.aud
    THEN "aud_mismatch"
    ELSE IF opts.sub # <<>> /\ IntMapGetString(claims, 2).val # opts.sub
    THEN "sub_mismatch"
    ELSE IF IntMapHas(claims, 4) /\ now - opts.skew >= TimeOf(claims, 4)
    THEN "expired"
    ELSE IF IntMapHas(claims, 5) /\ now - opts.skew < TimeOf(claims, 5)
    THEN "not_yet_valid"
    ELSE IF /\ IntMapHas(claims, 6)
            /\ TimeOf(claims, 6) > now + opts.skew
            /\ opts.strict
    THEN "issued_in_future"
    ELSE ""

\* Validator.ValidateMap at the time now: the error, "" for none.  A claim
\* issued in the future is an error in strict mode only.
ValidateMap(opts, claims, now) ==
    IF opts.iss # <<>> /\ IntMapGetString(claims, 1).val # opts.iss
    THEN "iss_mismatch"
    ELSE IF opts.aud # <<>> /\ IntMapGetString(claims, 3).val # opts.aud
    THEN "aud_mismatch"
    ELSE IF opts.sub # <<>> /\ IntMapGetString(claims, 2).val # opts.sub
    THEN "sub_mismatch"
    ELSE IF IntMapHas(claims, 4) /\ now - opts.skew >= TimeOf(claims, 4)
    THEN "expired"
    ELSE IF IntMapHas(claims, 5) /\ now + opts.skew < TimeOf(claims, 5)
    THEN "not_yet_valid"
    ELSE IF /\ IntMapHas(claims, 6)
            /\ TimeOf(claims, 6) > now + opts.skew
            /\ opts.strict
    THEN "issued_in_future"
    ELSE ""

\* Claim sets: each of the six claims absent or present.
ClaimSets ==
    { [nil |-> FALSE,
       m |-> [k \in texts \cup DOMAIN times |->
                IF k \in texts THEN StrV("text", <<97>>) ELSE IntV(times[k])]] :
        texts \in SUBSET {1, 2, 3},
        times \in UNION {[K -> 1..(MaxTime - 1)] : K \in SUBSET {4, 5, 6}} }

ValidatorOpts ==
    [iss : {<<>>, <<97>>}, aud : {<<>>, <<97>>}, sub : {<<>>, <<98>>},
     skew : 0..MaxSkew, strict : BOOLEAN]

\* The claims to validate, and a validator made with NewValidator(opts).
InitValidate ==
    /\ im \in ClaimSets
    /\ \E opts \in ValidatorOpts :
         got = [op |-> "NewValidator", p |-> 0, err |-> FALSE,
                val |-> [opts |-> opts, res |-> ""]]
    /\ m = NoMessage
    /\ wire = NoWire
    /\ last = Idle
    /\ vm = NoVM
    /\ prov = NoProv
    /\ ops = 0

\* Validate of the claims at the time now; got remembers the time and the
\* result.
CallValidate ==
    \E now \in 0..MaxTime :
        /\ got' = [op |-> "Validate", p |-> now,
                   err |-> ValidateMap(got.val.opts, im, now) # "",
                   val |-> [got.val EXCEPT
                              !.res = ValidateMap(got.val.opts, im, now)]]
        /\ UNCHANGED <<im, m, wire, last, vm, prov, ops>>

SpecValidate == InitValidate /\ [][CallValidate]_vars

-----------------------------------------------------------------------------
(* Properties of the message *)

\* Two payloads of type T hold the same data: the same bytes for a []byte,
\* the same CBOR data item for a claims map.
SamePayload(T, a, b) ==
    IF T = "bytes" THEN a.b = b.b
    ELSE EncMap(PayloadAsMap(a)) = EncMap(PayloadAsMap(b))

\* Two header maps hold the same CBOR data items under the same keys.
SameHeaders(a, b) == EncMap(a) = EncMap(b)

Returned(sent, v) ==
    /\ v.ok
    /\ v.err = ""
    /\ SamePayload(sent.T, v.m.Payload, sent.Payload)
    /\ SameHeaders(v.m.Protected, sent.Protected)
    /\ SameHeaders(v.m.Unprotected, sent.Unprotected)

RoundTrips(c, macer, ext) ==
    c.err = "" =>
        Returned(c.m, VerifyMac0Message(c.m.T, macer, c.out.b, ext))

Authenticated(msg, macer, ext) ==
    /\ prov.ok
    /\ prov.id = macer.id
    /\ prov.p = msg.mm.Protected
    /\ prov.pl = msg.mm.Payload
    /\ prov.e = ext.b

\* C2: with an ideal MAC, Verify succeeds on the object only with the key,
\* the protected bytes, the payload bytes and the external data of the
\* Compute that made the tag the object holds; if any of them differs,
\* whatever operations came before, Verify fails.
C2_TamperDetection ==
    \A macer \in Macers, ext \in Exts :
        Verify(m, macer, ext).err = "" => Authenticated(m, macer, ext)

\* A message whose payload was replaced in transit has been decoded, and
\* Verify refuses it under every key and external data.
C2_Witness ==
    /\ last.op = "UnmarshalCBOR"
    /\ last.err = ""
    /\ wire.via = "tampered"
    /\ prov.ok
    /\ ~m.mm.Tag.nil
    /\ m.mm.Payload # prov.pl
    /\ \A macer \in Macers, ext \in Exts :
         Verify(m, macer, ext).err = "verify_failed"

CarriesOtherAlg(h, macer) ==
    /\ Has(h, HeaderParameterAlg)
    /\ h.m[HeaderParameterAlg] # IntV(macer.alg)

Refused(r) == r.err = "alg_mismatch" /\ r.calls = {}

\* C3: if the key's alg is not Reserved and the protected headers carry an
\* alg other than the key's, Compute and ComputeAndEncode return the
\* alg-mismatch error and MACCreate is not called.
C3_AlgCoupling ==
    \A macer \in Macers, ext \in Exts, macOk \in BOOLEAN :
        (macer.alg # AlgorithmReserved /\ CarriesOtherAlg(m.Protected, macer))
            => /\ Refused(Compute(m, macer, ext, macOk))
               /\ Refused(ComputeAndEncode(m, macer, ext, macOk))

\* Compute was refused for a protected alg that is not an integer.
C3_Witness ==
    /\ last.op = "Compute"
    /\ last.err = "alg_mismatch"
    /\ last.calls = {}
    /\ Has(m.Protected, HeaderParameterAlg)
    /\ m.Protected.m[HeaderParameterAlg].k = "text"
    /\ m.mm.isnil

HoldsNoAuthenticator(msg) == msg.mm.isnil \/ msg.mm.Tag.nil

OutOfOrder(e, v) ==
    /\ e.err = "precondition"
    /\ e.out = NilBytes
    /\ v.err = "precondition"
    /\ v.calls = {}

InOrder(c, e, v) == c.err = "" => e.err = "" /\ ~e.out.nil /\ v.err = ""

\* C4: while the object holds no authenticator (no record, or a record with
\* a nil tag), MarshalCBOR returns an error and no bytes and Verify returns
\* an error without calling the MACer; after a successful Compute,
\* MarshalCBOR succeeds and Verify with the same key and external data
\* succeeds.
C4_OutOfOrder ==
    \A macer \in Macers, ext \in Exts :
        /\ HoldsNoAuthenticator(m) =>
               OutOfOrder(MarshalCBOR(m), Verify(m, macer, ext))
        /\ InOrder(Compute(m, macer, ext, TRUE),
                   MarshalCBOR(Compute(m, macer, ext, TRUE).m),
                   Verify(Compute(m, macer, ext, TRUE).m, macer, ext))

\* Bytes whose tag was made nil in transit were decoded and Verify was
\* called on the decoded message: it was refused and the MACer not called.
C4_Witness ==
    /\ last.op = "VerifyMac0Message"
    /\ last.err = "precondition"
    /\ last.calls = {}
    /\ wire.via = "tampered"
    /\ ~vm.ok

Decoded(T, b) == UnmarshalCBOR(FreshMessage(T), b)

SameDecoding(b, u0, u1, u2) ==
    /\ u0.err = ""
    /\ u1 = u0
    /\ u2 = u0
    /\ MarshalCBOR(u0.m).err = ""
    /\ MarshalCBOR(u0.m).out.b = b
    /\ HasPrefix(b, cwtPrefix \o mac0MessagePrefix)

TagTolerant(T, b) ==
    SameDecoding(b, Decoded(T, b), Decoded(T, RemoveCBORTag(b)),
                 Decoded(T, RemoveCBORTag(RemoveCBORTag(b))))

Tolerates(T, e) == e.err = "" => TagTolerant(T, e.out.b)

\* C5: the bytes that MarshalCBOR emits, those bytes without their leading
\* tag, and those bytes without both tags decode to the same message, and
\* encoding the decoded message gives the tagged bytes again.
C5_TagTolerance == Tolerates(m.T, MarshalCBOR(m))

\* Bytes whose leading tag was removed in transit have been decoded.
C5_Witness ==
    /\ last.op = "UnmarshalCBOR"
    /\ last.err = ""
    /\ wire.via = "ComputeAndEncode"
    /\ HasPrefix(wire.b, mac0MessagePrefix)
    /\ m.mm.Payload.b = <<104>>
    /\ MarshalCBOR(m).out.b = cwtPrefix \o wire.b

Emitted == last.op \in {"MarshalCBOR", "ComputeAndEncode"} /\ last.err = ""

\* C6: the bytes that MarshalCBOR emits always carry the COSE_Mac0 tag, and
\* carry the CWT tag around it exactly when the payload type is a claim set:
\* a message with a []byte payload is emitted without the CWT tag.
C6_CWTTagOnlyForClaims ==
    Emitted =>
        /\ HasPrefix(RemoveCBORTag(wire.b), mac0MessagePrefix)
               \/ HasPrefix(wire.b, mac0MessagePrefix)
        /\ HasPrefix(wire.b, cwtPrefix) <=> (m.T = "claims")

Covers(c, protected, ext) ==
    /\ c.m.mm.Protected = protected
    /\ c.m.toMac.b
         = MacStructure(protected,
                        IF ext.nil THEN SomeBytes(<<>>) ELSE ext,
                        c.m.mm.Payload)

AlgFilled(c, macer, ext) ==
    c.err = "" =>
        /\ Has(c.m.Protected, HeaderParameterAlg)
        /\ c.m.Protected.m[HeaderParameterAlg] = IntV(macer.alg)
        /\ Covers(c, SomeBytes(EncMap(c.m.Protected)), ext)

\* C7 as stated: whenever the protected alg is absent (Protected is nil or
\* is a map without alg) and the key's alg is not Reserved, a successful
\* Compute leaves Protected with alg = key.alg, covered by the protected
\* bytes of the MAC_structure.
C7_AutoFillWheneverAbsent ==
    \A macer \in Macers, ext \in Exts :
        (macer.alg # AlgorithmReserved /\ ~Has(m.Protected, HeaderParameterAlg))
            => AlgFilled(Compute(m, macer, ext, TRUE), macer, ext)

Kept(c, ext) ==
    c.err = "" =>
        /\ c.m.Protected = m.Protected
        /\ Covers(c, HeadersBytes(m.Protected), ext)

\* C7, amended: whenever Protected is nil and the key's alg is not Reserved,
\* a successful Compute leaves Protected with alg = key.alg, covered by the
\* protected bytes of the MAC_structure; a Protected that is a map is left
\* as it is, with or without alg, and its bytes are what is covered.
C7_AutoFillWhenNil ==
    \A macer \in Macers, ext \in Exts :
        /\ (macer.alg # AlgorithmReserved /\ m.Protected.nil)
               => AlgFilled(Compute(m, macer, ext, TRUE), macer, ext)
        /\ ~m.Protected.nil => Kept(Compute(m, macer, ext, TRUE), ext)

\* Compute succeeded on a message whose Protected was nil, and filled in
\* the alg of the key.
C7_Witness ==
    /\ last.op = "Compute"
    /\ last.err = ""
    /\ last.wasNil
    /\ Has(m.Protected, HeaderParameterAlg)
    /\ m.Protected.m[HeaderParameterAlg] = IntV(4)
    /\ m.mm.Protected.b = <<161, 1, 4>>

ZeroLength == SomeBytes(<<>>)

\* Where the protected bytes begin in the emitted message: after the two
\* tags and the head of the array.
ProtectedAt == Len(cwtPrefix) + Len(mac0MessagePrefix) + 2

DecodesEmpty(u) ==
    /\ u.err = ""
    /\ u.m.mm.Protected = ZeroLength
    /\ u.m.Protected = EmptyMap
    /\ HeadersBytes(u.m.Protected) = ZeroLength

EmptyStaysEmpty(c, e, ext) ==
    (c.err = "" /\ MapLen(c.m.Protected) = 0) =>
        /\ Covers(c, ZeroLength, ext)
        /\ e.err = ""
        /\ e.out.b[ProtectedAt] = 64
        /\ DecodesEmpty(Decoded(c.m.T, e.out.b))

\* C8: whenever the protected map is empty at Compute, the protected bytes
\* in the MAC_structure and in the emitted message are the zero-length byte
\* string (0x40, never 0x41 0xa0), and decoding the emitted message gives an
\* empty protected map whose bytes are the zero-length byte string again.
C8_EmptyProtected ==
    \A macer \in Macers, ext \in Exts :
        EmptyStaysEmpty(Compute(m, macer, ext, TRUE),
                        MarshalCBOR(Compute(m, macer, ext, TRUE).m), ext)

\* A message computed with an empty protected map was emitted and decoded
\* again.
C8_Witness ==
    /\ last.op = "UnmarshalCBOR"
    /\ last.err = ""
    /\ wire.via = "ComputeAndEncode"
    /\ MapLen(wire.snap.Protected) = 0
    /\ wire.b[ProtectedAt] = 64
    /\ m.Protected = EmptyMap
    /\ m.mm.Protected = ZeroLength

-----------------------------------------------------------------------------
(* Properties of the accessors *)

IntGetters == {"GetInt", "GetInt64", "GetUint64"}

\* The zero value of the shape an accessor returns.
ZeroOf(op) ==
    CASE op \in IntGetters -> IntV(0)
      [] op = "GetBytes" -> NilBytes
      [] op = "GetString" -> <<>>
      [] op = "GetBool" -> FALSE

\* The stored values that are not of the shape an accessor asks for.
NotConvertible(op, v) ==
    CASE op \in IntGetters ->
            \/ v.k # "int"
            \/ op = "GetUint64" /\ v.neg
            \/ op = "GetInt" /\ ~v.neg /\ MagLess(MaxInt32Mag, v.mag)
            \/ op = "GetInt" /\ v.neg /\ MagLess(MinInt32Mag, v.mag)
      [] op = "GetBytes" -> v.k \in {"int", "text", "ntext", "tarr", "bool", "null"}
      [] op = "GetString" ->
            v.k \in {"int", "bytes", "bytestr", "bytearr", "tarr", "bool", "null"}
      [] op = "GetBool" -> v.k # "bool"

AccessorContract ==
    got.op # "" =>
        /\ ~IntMapHas(im, got.p) => ~got.err /\ got.val = ZeroOf(got.op)
        /\ (IntMapHas(im, got.p) /\ NotConvertible(got.op, im.m[got.p]))
               => got.err /\ got.val = ZeroOf(got.op)

\* C9: an accessor asked for a key the map does not have returns the zero
\* value of its shape and no error; asked for a key whose value is not
\* convertible to its shape (a negative integer as uint64, an integer too
\* wide for GetInt, a value of another kind) it returns an error and the
\* zero value; and no accessor call changes the map.
C9_Accessors == [](AccessorContract) /\ [][im' = im]_vars

\* GetInt was asked for an integer that does not fit, and GetUint64 could
\* have been asked for a negative one.
C9_Witness ==
    /\ got.op = "GetInt"
    /\ IntMapHas(im, got.p)
    /\ im.m[got.p] = BigV(FALSE, MaxInt64Mag)
    /\ got.err
    /\ got.val = IntV(0)
    /\ IntMapHas(im, -1)

BytesLike == {"bytes", "bytestr", "bytearr"}

\* C10 as stated: GetBytes succeeds on every bytes-like value, a byte
\* string and a fixed-size byte array alike, and returns its bytes;
\* GetString succeeds only on text strings.
C10_BytesOfEveryBytesLike ==
    /\ (got.op = "GetBytes" /\ IntMapHas(im, got.p)
            /\ im.m[got.p].k \in BytesLike)
           => ~got.err /\ got.val = SomeBytes(im.m[got.p].b)
    /\ (got.op = "GetString" /\ IntMapHas(im, got.p) /\ ~got.err)
           => im.m[got.p].k \in {"text", "ntext"}

\* C10, amended: GetBytes succeeds on a byte string held as a byte slice
\* ([]byte or ByteStr) and returns its bytes, and fails with the nil result
\* on a fixed-size byte array; GetString succeeds only on text strings.
C10_BytesOfSlicesOnly ==
    /\ (got.op = "GetBytes" /\ IntMapHas(im, got.p)
            /\ im.m[got.p].k \in {"bytes", "bytestr"})
           => ~got.err /\ got.val = SomeBytes(im.m[got.p].b)
    /\ (got.op = "GetBytes" /\ IntMapHas(im, got.p)
            /\ im.m[got.p].k = "bytearr")
           => got.err /\ got.val = NilBytes
    /\ (got.op = "GetString" /\ IntMapHas(im, got.p) /\ ~got.err)
           => im.m[got.p].k \in {"text", "ntext"}

\* GetBytes was asked for key 12 of the test map, a [4]byte, and refused.
C10_Witness ==
    /\ im = TestIntMap
    /\ got.op = "GetBytes"
    /\ got.p = 12
    /\ got.err
    /\ got.val = NilBytes

-----------------------------------------------------------------------------
(* Properties of marshalling *)

\* The order of the keys as stated: a key that is not negative comes before
\* every negative key, keys that are not negative ascend, and negative keys
\* descend (ascend in absolute magnitude).
CanonicalBefore(a, b) ==
    IF a >= 0 THEN b < 0 \/ a < b ELSE b < 0 /\ b < a

RECURSIVE CanonicalKeys(_)
CanonicalKeys(S) ==
    IF S = {} THEN <<>>
    ELSE LET k == CHOOSE x \in S : \A y \in S \ {x} : CanonicalBefore(x, y)
         IN <<k>> \o CanonicalKeys(S \ {k})

\* The keys of an encoded map, in the order in which they stand in it.
RECURSIVE EmittedKeys(_, _, _)
EmittedKeys(d, i, n) ==
    IF n = 0 \/ ~DecKey(d, i).ok THEN <<>>
    ELSE <<DecKey(d, i).k>>
             \o EmittedKeys(d, DecValue(d, DecKey(d, i).next).next, n - 1)

\* C11: marshalling an IntMap emits each key once, the keys that are not
\* negative first in ascending order, then the negative keys in ascending
\* order of absolute magnitude, whatever the order in which the entries were
\* set: the bytes are a function of the entries alone.
C11_CanonicalOrder ==
    got.op = "MarshalCBOR" =>
        /\ EmittedKeys(got.val, 2, MapLen(im)) = CanonicalKeys(DOMAIN im.m)
        /\ got.val = EncHead(5, NatToMag(MapLen(im)))
                         \o EncPairs(im.m, CanonicalKeys(DOMAIN im.m))

\* A map with the keys 24, 1 and -1, of which 24 was set last, has been
\* marshalled: 24, encoded in two bytes, stands between 1 and -1.
C11_Witness ==
    /\ got.op = "MarshalCBOR"
    /\ got.p = 24
    /\ DOMAIN im.m = {24, 1, -1}
    /\ EmittedKeys(got.val, 2, 3) = <<1, 24, -1>>

-----------------------------------------------------------------------------
(* Properties of the validator *)

\* nbf - s <= t < exp - s, a claim that is absent setting no limit.
InWindow(claims, s, t) ==
    /\ IntMapHas(claims, 5) => TimeOf(claims, 5) - s <= t
    /\ IntMapHas(claims, 4) => t < TimeOf(claims, 4) - s

Validated == got.op = "Validate" /\ got.val.res = ""

\* C12 as stated: for fixed claims, options and skew s, if the claims
\* validate at some time t, they validate at every time t' with
\* nbf - s <= t' < exp - s.
C12_MonotoneInWindow ==
    Validated =>
        \A t2 \in 0..MaxTime :
            InWindow(im, got.val.opts.skew, t2)
                => ValidateMap(got.val.opts, im, t2) = ""

\* C12, amended: for fixed claims, options and skew s, if the claims
\* validate at some time t, they validate at every time t' with
\* nbf - s <= t' < exp - s and, when the validator is strict and iat is
\* present, iat - s <= t'.
C12_MonotoneAfterIssue ==
    Validated =>
        \A t2 \in 0..MaxTime :
            (/\ InWindow(im, got.val.opts.skew, t2)
             /\ (got.val.opts.strict /\ IntMapHas(im, 6))
                    => TimeOf(im, 6) - got.val.opts.skew <= t2)
                => ValidateMap(got.val.opts, im, t2) = ""

\* Claims with exp, nbf and iat were validated by a strict validator with a
\* skew of one second, at a time other than nbf - 1, which is in the window
\* and not before iat - 1.
C12_Witness ==
    /\ Validated
    /\ got.val.opts.strict
    /\ got.val.opts.skew = 1
    /\ {4, 5, 6} \subseteq DOMAIN im.m
    /\ got.p # TimeOf(im, 5) - 1
    /\ InWindow(im, 1, TimeOf(im, 5) - 1)
    /\ TimeOf(im, 6) <= TimeOf(im, 5)

\* The step is a Compute call that returned an error.
ComputeFailed == last'.op = "Compute" /\ last'.err # ""

\* C13: a Compute call that returns an error leaves the cached state as it
\* was: the held authenticator record and the cached to-be-MAC'd bytes are
\* those of before the call, and MarshalCBOR returns what it would have
\* returned before the call.
C13_FailedComputeFrame ==
    [][ComputeFailed =>
         /\ m'.mm = m.mm
         /\ m'.toMac = m.toMac
         /\ MarshalCBOR(m') = MarshalCBOR(m)]_vars

\* The payload bytes that the MAC_structure of msg covers, decoded as a T.
AuthenticatedPayload(msg) ==
    IF msg.T = "bytes" THEN BytesPayload(SomeBytes(msg.mm.Payload.b))
    ELSE IF Len(msg.mm.Payload.b) = 0 THEN MapPayload(EmptyMap)
    ELSE MapPayload(UnmarshalMap(msg.mm.Payload.b, NilMap).h)

\* The step is a successful Verify that follows a successful UnmarshalCBOR.
VerifiedAfterUnmarshal ==
    /\ last.op = "UnmarshalCBOR" /\ last.err = ""
    /\ last'.op = "Verify" /\ last'.err = ""

\* C14: after a successful UnmarshalCBOR followed by a successful Verify,
\* also on an object that already had a Payload, the public Payload field is
\* the decoding of the payload bytes that the verified MAC_structure covers,
\* also when these bytes are zero-length.
C14_VerifiedPayload ==
    [][VerifiedAfterUnmarshal =>
         /\ m'.Payload.b = AuthenticatedPayload(m').b
         /\ m'.Payload.m = AuthenticatedPayload(m').m]_vars

====
